---- MODULE Spec2Model ----
(***************************************************************************)
(* Model of the NetBox network-canvas plugin views                         *)
(* (src/netbox_network_canvas_plugin/views.py): the two dashboard          *)
(* topology builders, the device classifier and the topology JSON          *)
(* endpoint, over a store of Device and Cable records owned by the host.   *)
(*                                                                         *)
(* Conventions.  Python strings are TLA+ strings.  An optional related     *)
(* object (device.site, device.role, device.device_type, primary_ip4) is a *)
(* record with a `present` field.  Django primary keys are >= 1, so an     *)
(* absent id (None) is NoneId = 0, which is falsy as None is.  A Python    *)
(* dict is a record; a list is a sequence.                                 *)
(***************************************************************************)
EXTENDS Integers, Sequences, FiniteSets, TLC

VARIABLES
    devices,    \* Device table, in the order Device.objects returns it
    cables,     \* Cable table, in the order Cable.objects returns it
    circuits,   \* CircuitTermination table: records [circuit, site_id]
    faults,     \* store queries that raise while this request is handled
    request,    \* the request being handled: [view |-> ...] plus GET parameters
    response,   \* what the handler returned for `request`
    store       \* rows of every table, by identity, as the batch scripts write them

vars == <<devices, cables, circuits, faults, request, response, store>>

NoneId == 0

\* ------------------------------------------------------------------------
\* Python string operations used by the views
\* ------------------------------------------------------------------------

\* One character of str.lower(): A-Z map to a-z, everything else is kept.
LowerChar(c) ==
    CASE c = "A" -> "a"
      [] c = "B" -> "b"
      [] c = "C" -> "c"
      [] c = "D" -> "d"
      [] c = "E" -> "e"
      [] c = "F" -> "f"
      [] c = "G" -> "g"
      [] c = "H" -> "h"
      [] c = "I" -> "i"
      [] c = "J" -> "j"
      [] c = "K" -> "k"
      [] c = "L" -> "l"
      [] c = "M" -> "m"
      [] c = "N" -> "n"
      [] c = "O" -> "o"
      [] c = "P" -> "p"
      [] c = "Q" -> "q"
      [] c = "R" -> "r"
      [] c = "S" -> "s"
      [] c = "T" -> "t"
      [] c = "U" -> "u"
      [] c = "V" -> "v"
      [] c = "W" -> "w"
      [] c = "X" -> "x"
      [] c = "Y" -> "y"
      [] c = "Z" -> "z"
      [] OTHER -> c

RECURSIVE lower(_)
\* str.lower()
lower(s) ==
    IF Len(s) = 0 THEN ""
    ELSE LowerChar(SubSeq(s, 1, 1)) \o lower(SubSeq(s, 2, Len(s)))

\* Python's `sub in s` on strings.
Contains(sub, s) ==
    \E i \in 0..(Len(s) - Len(sub)) : SubSeq(s, i + 1, i + Len(sub)) = sub

\* any(x in s for x in keywords)
AnyIn(keywords, s) == \E k \in keywords : Contains(k, s)

\* ------------------------------------------------------------------------
\* Device classifier
\* ------------------------------------------------------------------------

Categories == {"switch", "router", "firewall", "ap", "server", "unknown"}

\* The role rules, in the order the if/elif chain tests them; "" when no
\* role rule matches (the chain falls through).
RoleRule(role) ==
    IF Contains("switch", role) THEN "switch"
    ELSE IF Contains("router", role) THEN "router"
    ELSE IF Contains("firewall", role) \/ Contains("security", role) THEN "firewall"
    ELSE IF Contains("access point", role) \/ Contains("ap", role)
            \/ Contains("wireless", role) THEN "ap"
    ELSE IF Contains("server", role) \/ Contains("vm", role)
            \/ Contains("virtual", role) THEN "server"
    ELSE ""

\* Mutant: a virtual-machine model gets the category 'vm', the key the icon
\* table has beside the six categories.
ModelRuleVm(model) ==
    IF AnyIn({"switch", "catalyst", "nexus", "ex-", "qfx"}, model) THEN "switch"
    ELSE IF AnyIn({"router", "isr", "asr", "mx-", "srx"}, model) THEN "router"
    ELSE IF AnyIn({"firewall", "pa-", "asa", "fortigate"}, model) THEN "firewall"
    ELSE IF AnyIn({"ap-", "access point", "wireless", "wifi"}, model) THEN "ap"
    ELSE IF AnyIn({"server", "poweredge", "proliant"}, model) THEN "server"
    ELSE IF Contains("vm", model) THEN "vm"
    ELSE ""

\* Mutant: the model name is tested against the role keywords.
ModelRuleAsRole(model) ==
    IF Contains("switch", model) THEN "switch"
    ELSE IF Contains("router", model) THEN "router"
    ELSE IF Contains("firewall", model) \/ Contains("security", model) THEN "firewall"
    ELSE IF Contains("access point", model) \/ Contains("ap", model)
            \/ Contains("wireless", model) THEN "ap"
    ELSE IF Contains("server", model) \/ Contains("vm", model)
            \/ Contains("virtual", model) THEN "server"
    ELSE ""

\* Mutant: 'fortigate' is missing from the firewall keywords.
ModelRuleNoFortigate(model) ==
    IF AnyIn({"switch", "catalyst", "nexus", "ex-", "qfx"}, model) THEN "switch"
    ELSE IF AnyIn({"router", "isr", "asr", "mx-", "srx"}, model) THEN "router"
    ELSE IF AnyIn({"firewall", "pa-", "asa"}, model) THEN "firewall"
    ELSE IF AnyIn({"ap-", "access point", "wireless", "wifi"}, model) THEN "ap"
    ELSE IF AnyIn({"server", "poweredge", "proliant", "vm"}, model) THEN "server"
    ELSE ""

\* The model-name rules, in the order the second if/elif chain tests them.
ModelRule(model) ==
    IF AnyIn({"switch", "catalyst", "nexus", "ex-", "qfx"}, model) THEN "switch"
    ELSE IF AnyIn({"router", "isr", "asr", "mx-", "srx"}, model) THEN "router"
    ELSE IF AnyIn({"firewall", "pa-", "asa", "fortigate"}, model) THEN "firewall"
    ELSE IF AnyIn({"ap-", "access point", "wireless", "wifi"}, model) THEN "ap"
    ELSE IF AnyIn({"server", "poweredge", "proliant", "vm"}, model) THEN "server"
    ELSE ""

\* DashboardView._get_device_type
Dashboard_get_device_type(device) ==
    IF ~device.device_type.present THEN "unknown"
    ELSE LET model == lower(device.device_type.model)
             role  == IF device.role.present THEN lower(device.role.name) ELSE ""
             by_role  == RoleRule(role)
             by_model == ModelRule(model)
         IN  IF by_role # "" THEN by_role
             ELSE IF by_model # "" THEN by_model
             ELSE "unknown"

\* EnhancedDashboardView._get_device_type (a copy of the method above)
Enhanced_get_device_type(device) ==
    IF ~device.device_type.present THEN "unknown"
    ELSE LET model == lower(device.device_type.model)
             role  == IF device.role.present THEN lower(device.role.name) ELSE ""
             by_role  == RoleRule(role)
             by_model == ModelRule(model)
         IN  IF by_role # "" THEN by_role
             ELSE IF by_model # "" THEN by_model
             ELSE "unknown"

\* _get_device_icon (both views): icons.get(device_type, icons['unknown']).
\* The glyphs are named by their code points.
_get_device_icon(device_type) ==
    CASE device_type = "switch"   -> "U+26A1"
      [] device_type = "router"   -> "U+1F500"
      [] device_type = "firewall" -> "U+1F6E1"
      [] device_type = "ap"       -> "U+1F4F6"
      [] device_type = "server"   -> "U+1F4BB"
      [] device_type = "vm"       -> "U+1F5A5"
      [] OTHER                    -> "U+2753"

\* ------------------------------------------------------------------------
\* Store records
\* ------------------------------------------------------------------------

NoSite == [present |-> FALSE, id |-> NoneId, name |-> ""]
NoRole == [present |-> FALSE, name |-> ""]
NoDeviceType == [present |-> FALSE, model |-> "", manufacturer |-> ""]
NoIP == [present |-> FALSE, address |-> ""]

Site(i, n) == [present |-> TRUE, id |-> i, name |-> n]
Role(n) == [present |-> TRUE, name |-> n]
\* manufacturer "" stands for a device type without manufacturer
DeviceType(m, manu) == [present |-> TRUE, model |-> m, manufacturer |-> manu]
IP(a) == [present |-> TRUE, address |-> a]

\* A Device row.  `fault` names the attribute whose access raises for a
\* malformed row: "none", "site" (device.site) or "interfaces"
\* (device.interfaces.count()).
Device(i, st, s, r, dt) ==
    [id |-> i, name |-> "dev", status |-> st, site |-> s, role |-> r,
     device_type |-> dt, interfaces |-> 2, primary_ip4 |-> NoIP,
     primary_ip6 |-> NoIP, fault |-> "none"]

\* The shapes a termination object takes for the views' hasattr probing:
\*   "wrapped"  a CableTermination whose .termination is an interface with a
\*              .device; the object has no .device of its own
\*   "direct"   an object exposing .device (and .id, .name) itself
\*   "circuit"  a CableTermination whose .termination has no .device
\*   "broken"   an object whose attribute access raises
Shapes == {"wrapped", "direct", "circuit", "broken"}

Termination(sh, d, n) == [shape |-> sh, device |-> d, name |-> n]

\* hasattr(termination, 'termination')
HasTermination(t) == t.shape \in {"wrapped", "circuit"}
\* hasattr(termination.termination, 'device')
InnerHasDevice(t) == t.shape = "wrapped"
\* hasattr(termination, 'device')
HasDevice(t) == t.shape = "direct"
\* probing the object raises
Raises(t) == t.shape = "broken"

\* ------------------------------------------------------------------------
\* Sequence helpers (Python list operations)
\* ------------------------------------------------------------------------

Min(a, b) == IF a < b THEN a ELSE b

\* s[:n] for n >= 0
Take(s, n) == SubSeq(s, 1, Min(n, Len(s)))

\* [f(x) for x in s] with f given as a function over the elements' indices
Ids(s) == [i \in 1..Len(s) |-> s[i].id]

\* x in list
InList(x, s) == \E i \in 1..Len(s) : s[i] = x

RECURSIVE Flatten(_)
\* list.extend over a list of lists
Flatten(ss) ==
    IF Len(ss) = 0 THEN <<>>
    ELSE IF Len(ss) = 1 THEN ss[1]
    ELSE LET half == Len(ss) \div 2
         IN  Flatten(SubSeq(ss, 1, half)) \o Flatten(SubSeq(ss, half + 1, Len(ss)))

\* The result of running code that may raise.
Ok(v) == [raised |-> FALSE, value |-> v]
Raised(msg) == [raised |-> TRUE, value |-> msg]

\* ------------------------------------------------------------------------
\* DashboardView._get_topology_data
\* ------------------------------------------------------------------------

DashboardDeviceCap == 200
DashboardCableCap == 100

\* Device.objects...filter(status='active').all()[:200]
DashboardLoadDevices(devs) ==
    Take(SelectSeq(devs, LAMBDA d : d.status = "active"), DashboardDeviceCap)

\* The row condition of Cable.objects.filter(
\*   a_terminations__device_id__in=..., b_terminations__device_id__in=...):
\* some A termination and some B termination carry a device_id of the list.
\* Only a termination that exposes a device has that column.
DashboardCableMatches(cable, device_ids) ==
    /\ \E i \in 1..Len(cable.a_terminations) :
          /\ HasDevice(cable.a_terminations[i])
          /\ InList(cable.a_terminations[i].device, device_ids)
    /\ \E i \in 1..Len(cable.b_terminations) :
          /\ HasDevice(cable.b_terminations[i])
          /\ InList(cable.b_terminations[i].device, device_ids)

\* Cable.objects.filter(...).select_related().distinct()[:100]
DashboardLoadCables(cbls, device_ids) ==
    Take(SelectSeq(cbls, LAMBDA c : DashboardCableMatches(c, device_ids)),
         DashboardCableCap)

\* The dict literal device_data of the simple dashboard, for one device.
DashboardDeviceData(device) ==
    LET device_type == Dashboard_get_device_type(device)
    IN  [id |-> device.id,
         name |-> device.name,
         device_type |->
            [model |-> IF device.device_type.present
                       THEN device.device_type.model ELSE "Unknown",
             manufacturer |->
                IF device.device_type.present /\ device.device_type.manufacturer # ""
                THEN device.device_type.manufacturer ELSE "Unknown"],
         site |-> [id |-> IF device.site.present THEN device.site.id ELSE NoneId,
                   name |-> IF device.site.present THEN device.site.name
                            ELSE "Unknown"],
         role |-> IF device.role.present THEN device.role.name ELSE "Unknown",
         status |-> IF device.status # "" THEN device.status ELSE "unknown",
         interface_count |-> device.interfaces,
         type |-> device_type,
         icon |-> _get_device_icon(device_type),
         primary_ip |-> IF device.primary_ip4.present
                        THEN device.primary_ip4.address ELSE "None"]

\* Mutant: the site groups are keyed by the site's id.
SitesEnsureById(sites_data, site_name, site_id) ==
    IF \E i \in 1..Len(sites_data) : sites_data[i].id = site_id
    THEN sites_data
    ELSE Append(sites_data,
                [name |-> site_name, id |-> site_id, devices |-> <<>>])

\* "if site_name not in sites_data: sites_data[site_name] = {...}"; sites_data
\* keeps insertion order.
SitesEnsure(sites_data, site_name, site_id) ==
    IF \E i \in 1..Len(sites_data) : sites_data[i].name = site_name
    THEN sites_data
    ELSE Append(sites_data,
                [name |-> site_name, id |-> site_id, devices |-> <<>>])

\* Mutant: the device is appended to every site group.
SitesAppendAll(sites_data, site_name, device_data) ==
    [i \in 1..Len(sites_data) |->
        [sites_data[i] EXCEPT !.devices = Append(@, device_data)]]

\* sites_data[site_name]['devices'].append(device_data)
SitesAppend(sites_data, site_name, device_data) ==
    LET updated == [i \in 1..Len(sites_data) |->
                      IF sites_data[i].name = site_name
                      THEN [sites_data[i] EXCEPT !.devices = Append(@, device_data)]
                      ELSE sites_data[i]]
    IN  SubSeq(updated, 1, Len(updated))

RECURSIVE DashboardGroupDevices(_, _)
\* The loop "for device in devices" of the simple dashboard, from sites_data
\* onwards.  The loop has no try of its own: a row whose attribute access
\* raises ends the loop with that exception.  (The loop is unfolded by
\* halves: the first half of the rows, then the second from what it left.)
DashboardGroupDevices(devs, sites_data) ==
    IF Len(devs) = 0 THEN Ok(sites_data)
    ELSE IF Len(devs) > 1
    THEN LET half  == Len(devs) \div 2
             first == DashboardGroupDevices(SubSeq(devs, 1, half), sites_data)
         IN  IF first.raised THEN first
             ELSE DashboardGroupDevices(SubSeq(devs, half + 1, Len(devs)),
                                        first.value)
    ELSE LET device == Head(devs)
         IN  IF device.fault # "none" THEN Raised("device")
             ELSE LET site_name == IF device.site.present THEN device.site.name
                                   ELSE "Unknown Site"
                      site_id   == IF device.site.present THEN device.site.id
                                   ELSE NoneId
                  IN  Ok(SitesAppend(SitesEnsure(sites_data, site_name, site_id),
                                     site_name, DashboardDeviceData(device)))

RECURSIVE DashboardWalk(_)
\* "for termination in cable.x_terminations.all(): if hasattr(termination,
\* 'device'): x_device_id = termination.device.id; break".  The first
\* termination exposing a device decides; NoneId when none does.
DashboardWalk(terms) ==
    IF Len(terms) = 0 THEN Ok(NoneId)
    ELSE IF Raises(Head(terms)) THEN Raised("termination")
    ELSE IF HasDevice(Head(terms)) THEN Ok(Head(terms).device)
    ELSE DashboardWalk(Tail(terms))

\* str(cable.type) if cable.type else 'ethernet', and the like
CableType(cable) == IF cable.type # "" THEN cable.type ELSE "ethernet"
CableStatus(cable) == IF cable.status # "" THEN cable.status ELSE "connected"

\* The condition under which the simple dashboard appends an edge.
DashboardEmits(a_device_id, b_device_id, device_ids) ==
    /\ a_device_id # NoneId
    /\ b_device_id # NoneId
    /\ InList(a_device_id, device_ids)
    /\ InList(b_device_id, device_ids)

\* The body of "for cable in cables" of the simple dashboard: the edges (none
\* or one) the cable adds to connections.  An exception is caught per cable.
DashboardCableEdges(cable, device_ids) ==
    LET a == DashboardWalk(cable.a_terminations)
        b == DashboardWalk(cable.b_terminations)
    IN  IF a.raised \/ b.raised THEN <<>>
        ELSE IF DashboardEmits(a.value, b.value, device_ids)
        THEN << [id |-> cable.id, source |-> a.value, target |-> b.value,
                 type |-> CableType(cable), status |-> CableStatus(cable),
                 length |-> cable.length] >>
        ELSE <<>>

RECURSIVE DashboardConnectionsOneTry(_, _)
\* Mutant: one try around the whole loop, so the first cable that raises
\* ends the processing of the cables after it.
DashboardConnectionsOneTry(cbls, device_ids) ==
    IF Len(cbls) = 0 THEN <<>>
    ELSE IF \/ DashboardWalk(Head(cbls).a_terminations).raised
            \/ DashboardWalk(Head(cbls).b_terminations).raised
    THEN <<>>
    ELSE DashboardCableEdges(Head(cbls), device_ids)
         \o DashboardConnectionsOneTry(Tail(cbls), device_ids)

\* connections after the loop over the loaded cables
DashboardConnections(cbls, device_ids) ==
    Flatten([i \in 1..Len(cbls) |-> DashboardCableEdges(cbls[i], device_ids)])

\* The payload both builders return when the outer try catches an exception.
EmptyTopology(msg) ==
    [devices |-> <<>>, sites |-> <<>>, connections |-> <<>>,
     stats |-> [total_devices |-> 0, total_sites |-> 0, total_connections |-> 0],
     error |-> msg]

\* DashboardView._get_topology_data
Dashboard_get_topology_data(devs, cbls, flt) ==
    IF "devices" \in flt THEN EmptyTopology("devices")
    ELSE
    LET loaded     == DashboardLoadDevices(devs)
        device_ids == Ids(loaded)
    IN  IF "cables" \in flt THEN EmptyTopology("cables")
        ELSE
        LET loaded_cables == DashboardLoadCables(cbls, device_ids)
            grouped       == DashboardGroupDevices(loaded, <<>>)
        IN  IF grouped.raised THEN EmptyTopology(grouped.value)
            ELSE
            LET connections == DashboardConnections(loaded_cables, device_ids)
                sites_list  == grouped.value
                all_devices == Flatten([i \in 1..Len(sites_list) |->
                                          sites_list[i].devices])
            IN  [devices |-> all_devices,
                 sites |-> sites_list,
                 connections |-> connections,
                 stats |-> [total_devices |-> Len(all_devices),
                            total_sites |-> Len(sites_list),
                            total_connections |-> Len(connections)]]

\* ------------------------------------------------------------------------
\* EnhancedDashboardView._get_enhanced_topology_data
\* ------------------------------------------------------------------------

EnhancedDeviceCap == 300
EnhancedCableCap == 100

\* The if/elif chain that probes one termination: which method finds a device
\* of device_ids ("m1", "m2", "m3"), "miss" when none does, "raise" when
\* probing the object raises.
Probe(t, device_ids) ==
    IF Raises(t) THEN "raise"
    ELSE IF HasTermination(t) /\ InnerHasDevice(t) /\ InList(t.device, device_ids)
    THEN "m1"
    ELSE IF HasDevice(t) /\ InList(t.device, device_ids) THEN "m2"
    ELSE IF HasDevice(t) /\ InList(t.device, device_ids) THEN "m3"
    ELSE "miss"

RECURSIVE FilterWalk(_, _)
\* x_device_connected after the try around one side's loop of the cable
\* filter; raised tells whether the except branch ran.
FilterWalk(terms, device_ids) ==
    IF Len(terms) = 0 THEN Ok(FALSE)
    ELSE LET p == Probe(Head(terms), device_ids)
         IN  IF p = "raise" THEN Raised(FALSE)
             ELSE IF p # "miss" THEN Ok(TRUE)
             ELSE FilterWalk(Tail(terms), device_ids)

\* "if a_device_connected and b_device_connected" of the cable filter
FilterKeeps(cable, device_ids) ==
    /\ FilterWalk(cable.a_terminations, device_ids).value
    /\ FilterWalk(cable.b_terminations, device_ids).value

\* What the cable filter appends to device_connected_cables for one cable.
FilterAppend(cable, device_ids) ==
    IF FilterKeeps(cable, device_ids) THEN <<cable, cable>> ELSE <<>>

\* device_connected_cables after the loop over all_cables
FilterCables(all_cables, device_ids) ==
    Flatten([i \in 1..Len(all_cables) |-> FilterAppend(all_cables[i], device_ids)])

\* ids of the cables whose side raised in the filter (x_termination_errors)
FilterErrors(all_cables, device_ids, side) ==
    LET bad == SelectSeq(all_cables, LAMBDA c :
                  FilterWalk(IF side = "a" THEN c.a_terminations
                             ELSE c.b_terminations, device_ids).raised)
    IN  Ids(bad)

\* Number of circuits with at least two terminations at the loaded devices'
\* sites (connections_debug['circuit_connections']).
CircuitConnections(loaded, circs) ==
    LET site_ids == {loaded[i].site.id : i \in {j \in 1..Len(loaded) :
                                                  loaded[j].site.present}}
        terms    == {i \in 1..Len(circs) : circs[i].site_id \in site_ids}
        ids      == {circs[i].circuit : i \in terms}
    IN  Cardinality({c \in ids :
                       Cardinality({i \in terms : circs[i].circuit = c}) >= 2})

RECURSIVE EnhancedWalk(_, _)
\* One side's loop of _process_cable_connection: the device id and interface
\* name of the first termination that a method finds in device_ids.
EnhancedWalk(terms, device_ids) ==
    IF Len(terms) = 0 THEN Ok([id |-> NoneId, interface |-> "None"])
    ELSE LET t == Head(terms)
             p == Probe(t, device_ids)
         IN  IF p = "raise" THEN Raised("termination")
             ELSE IF p # "miss" THEN Ok([id |-> t.device, interface |-> t.name])
             ELSE EnhancedWalk(Tail(terms), device_ids)

\* Mutant: the comparison of the two ends is left out.
EnhancedEmitsAnyPair(a_device_id, b_device_id) ==
    /\ a_device_id # NoneId
    /\ b_device_id # NoneId

\* "if a_device_id and b_device_id and a_device_id != b_device_id"
EnhancedEmits(a_device_id, b_device_id) ==
    /\ a_device_id # NoneId
    /\ b_device_id # NoneId
    /\ a_device_id # b_device_id

\* EnhancedDashboardView._process_cable_connection: <<>> for None, else the
\* one connection.
_process_cable_connection(cable, device_ids) ==
    LET a == EnhancedWalk(cable.a_terminations, device_ids)
        b == EnhancedWalk(cable.b_terminations, device_ids)
    IN  IF a.raised \/ b.raised THEN <<>>
        ELSE IF EnhancedEmits(a.value.id, b.value.id)
        THEN << [id |-> cable.id, source |-> a.value.id, target |-> b.value.id,
                 type |-> CableType(cable), status |-> CableStatus(cable),
                 length |-> cable.length,
                 a_interface |-> a.value.interface,
                 b_interface |-> b.value.interface,
                 logical |-> FALSE] >>
        ELSE <<>>

\* Mutant: when no cable gave a connection, the loaded devices are chained
\* by logical connections (ids from 10000 on), as _create_logical_connections
\* would chain them.
EnhancedConnectionsOrLogical(cbls, device_ids) ==
    LET real == Flatten([i \in 1..Len(cbls) |->
                           _process_cable_connection(cbls[i], device_ids)])
    IN  IF Len(real) > 0 \/ Len(device_ids) < 2 THEN real
        ELSE [i \in 1..(Len(device_ids) - 1) |->
                [id |-> 9999 + i, source |-> device_ids[i],
                 target |-> device_ids[i + 1], type |-> "ethernet",
                 status |-> "connected", length |-> 0,
                 a_interface |-> "eth0", b_interface |-> "eth0",
                 logical |-> TRUE]]

\* connections after "for cable in cables"
EnhancedConnections(cbls, device_ids) ==
    Flatten([i \in 1..Len(cbls) |-> _process_cable_connection(cbls[i], device_ids)])

\* The dict literal device_data of the enhanced dashboard, for one device.
EnhancedDeviceData(device, site_name, site_id) ==
    LET device_type == Enhanced_get_device_type(device)
    IN  [id |-> device.id,
         name |-> device.name,
         device_type |->
            [model |-> IF device.device_type.present
                       THEN device.device_type.model ELSE "Unknown",
             manufacturer |->
                IF device.device_type.present /\ device.device_type.manufacturer # ""
                THEN device.device_type.manufacturer ELSE "Unknown"],
         site |-> [id |-> site_id, name |-> site_name],
         role |-> IF device.role.present THEN device.role.name ELSE "Unknown",
         status |-> IF device.status # "" THEN device.status ELSE "unknown",
         interface_count |-> device.interfaces,
         type |-> device_type,
         icon |-> _get_device_icon(device_type),
         primary_ip |-> IF device.primary_ip4.present
                        THEN device.primary_ip4.address
                        ELSE IF device.primary_ip6.present
                        THEN device.primary_ip6.address ELSE "None"]

RECURSIVE EnhancedGroupDevices(_, _)
\* The loop "for device in devices" of the enhanced dashboard: each device is
\* processed in its own try.  The result is [sites, processed, errors].  (The
\* loop is unfolded by halves, as in the simple dashboard.)
EnhancedGroupDevices(devs, acc) ==
    IF Len(devs) = 0 THEN acc
    ELSE IF Len(devs) > 1
    THEN LET half  == Len(devs) \div 2
             first == EnhancedGroupDevices(SubSeq(devs, 1, half), acc)
         IN  \* the test makes TLC evaluate `first` before the second half
             IF first.processed + Len(first.errors)
                   = acc.processed + Len(acc.errors) + half
             THEN EnhancedGroupDevices(SubSeq(devs, half + 1, Len(devs)), first)
             ELSE first
    ELSE LET device    == Head(devs)
             site_name == IF device.site.present THEN device.site.name
                          ELSE "Unknown Site"
             site_id   == IF device.site.present THEN device.site.id ELSE NoneId
             ensured   == SitesEnsure(acc.sites, site_name, site_id)
         IN  IF device.fault = "site"
             THEN [acc EXCEPT !.errors = Append(@, device.id)]
             ELSE IF device.fault = "interfaces"
             THEN [acc EXCEPT !.sites = ensured,
                              !.errors = Append(@, device.id)]
             ELSE [acc EXCEPT
                     !.sites = SitesAppend(ensured, site_name,
                                 EnhancedDeviceData(device, site_name, site_id)),
                     !.processed = @ + 1]

\* Mutant: a failure of the inner try leaves no cable_error entry.
EnhancedFindCablesSilent(loaded, cbls, circs, flt) ==
    IF "cables" \in flt \/ "circuits" \in flt
    THEN [cables |-> <<>>, debug |-> <<>>]
    ELSE [cables |-> FilterCables(Take(cbls, EnhancedCableCap), Ids(loaded)),
          debug |-> <<>>]

\* The inner try: the cables kept for processing and the debug entries it
\* leaves.  A failing query lands in the except branch: cable_error, no cables.
EnhancedFindCables(loaded, cbls, circs, flt) ==
    IF "cables" \in flt
    THEN [cables |-> <<>>, debug |-> [cable_error |-> "cables"]]
    ELSE
    LET device_ids == Ids(loaded)
        all_cables == Take(cbls, EnhancedCableCap)
        kept       == FilterCables(all_cables, device_ids)
        a_errors   == FilterErrors(all_cables, device_ids, "a")
        b_errors   == FilterErrors(all_cables, device_ids, "b")
        errors     == (IF Len(a_errors) > 0
                       THEN [a_termination_errors |-> a_errors] ELSE <<>>)
                      @@ (IF Len(b_errors) > 0
                          THEN [b_termination_errors |-> b_errors] ELSE <<>>)
    IN  IF Len(kept) = 0 /\ "circuits" \in flt
        THEN [cables |-> <<>>, debug |-> [cable_error |-> "circuits"] @@ errors]
        ELSE [cables |-> kept,
              debug |->
                 [method_used |-> IF Len(kept) = 0 THEN "circuits"
                                  ELSE "cable_terminations",
                  total_cables_found |-> Len(all_cables),
                  device_connections |-> Len(kept),
                  circuit_connections |->
                     IF Len(kept) = 0 THEN CircuitConnections(loaded, circs)
                     ELSE 0] @@ errors]

\* Mutant: the enhanced loader keeps the status filter of the simple one.
EnhancedLoadActiveOnly(devs) ==
    Take(SelectSeq(devs, LAMBDA d : d.status = "active"), EnhancedDeviceCap)

\* Device.objects.select_related(...).prefetch_related(...).all()[:300]
EnhancedLoadDevices(devs) == Take(devs, EnhancedDeviceCap)

\* EnhancedDashboardView._get_enhanced_topology_data
_get_enhanced_topology_data(devs, cbls, circs, flt) ==
    IF "devices" \in flt THEN EmptyTopology("devices")
    ELSE
    LET loaded     == EnhancedLoadDevices(devs)
        device_ids == Ids(loaded)
    IN  \* len([d for d in devices if d.site]) reads every device's site
        IF \E i \in 1..Len(loaded) : loaded[i].fault = "site"
        THEN EmptyTopology("device")
        ELSE
        LET with_sites  == Len(SelectSeq(loaded, LAMBDA d : d.site.present))
            found       == EnhancedFindCables(loaded, cbls, circs, flt)
            grouped     == EnhancedGroupDevices(
                              loaded,
                              [sites |-> <<>>, processed |-> 0, errors |-> <<>>])
            connections == EnhancedConnections(found.cables, device_ids)
            sites_list  == grouped.sites
            all_devices == Flatten([i \in 1..Len(sites_list) |->
                                      sites_list[i].devices])
        IN  [devices |-> all_devices,
             sites |-> sites_list,
             connections |-> connections,
             stats |-> [total_devices |-> Len(all_devices),
                        total_sites |-> Len(sites_list),
                        total_connections |-> Len(connections)],
             debug |->
                [total_devices_queried |-> Len(loaded),
                 devices_with_sites |-> with_sites,
                 devices_without_sites |-> Len(loaded) - with_sites,
                 devices_processed |-> grouped.processed,
                 sites_created |-> Len(sites_list),
                 real_connections_found |-> Len(connections),
                 using_real_connections |-> Len(connections) > 0,
                 mock_connections_disabled |-> TRUE,
                 final_device_count |-> Len(all_devices),
                 final_site_count |-> Len(sites_list),
                 final_connection_count |-> Len(connections)]
                @@ found.debug
                @@ (IF Len(grouped.errors) > 0
                    THEN [device_processing_errors |-> grouped.errors]
                    ELSE <<>>)]

\* ------------------------------------------------------------------------
\* get_context_data of the two dashboards
\* ------------------------------------------------------------------------

\* The four count() queries run outside any try; topology_data stands for
\* the payload that json.dumps writes into topology_data_json.  A behaviour
\* handles one request: the views never write the store, so a later request
\* would be handled over the same tables.
Context(devs, cbls, topology_data) ==
    [propagated |-> FALSE,
     device_count |-> Len(devs),
     cable_count |-> Len(cbls),
     topology_data |-> topology_data]

Propagated(msg) == [propagated |-> TRUE, error |-> msg]

\* DashboardView.get_context_data
Dashboard_get_context_data ==
    /\ request.view = "none"
    /\ request' = [view |-> "dashboard"]
    /\ response' =
          IF "counts" \in faults THEN Propagated("counts")
          ELSE Context(devices, cables,
                       Dashboard_get_topology_data(devices, cables, faults))
    /\ UNCHANGED <<devices, cables, circuits, faults, store>>

\* EnhancedDashboardView.get_context_data
Enhanced_get_context_data ==
    /\ request.view = "none"
    /\ request' = [view |-> "enhanced"]
    /\ response' =
          IF "counts" \in faults THEN Propagated("counts")
          ELSE Context(devices, cables,
                       _get_enhanced_topology_data(devices, cables, circuits, faults))
    /\ UNCHANGED <<devices, cables, circuits, faults, store>>

NoRequest == [view |-> "none"]
NoResponse == [propagated |-> FALSE]

\* ------------------------------------------------------------------------
\* TopologyDataView.get
\* ------------------------------------------------------------------------

DefaultLimit == 100
LimitCap == 500

\* A GET parameter: request.GET.get(name) is None when it is not given.
NotGiven == [given |-> FALSE, value |-> ""]
Given(v) == [given |-> TRUE, value |-> v]

RECURSIVE strip(_)
\* str.strip() for blanks
strip(s) ==
    IF Len(s) > 0 /\ SubSeq(s, 1, 1) = " " THEN strip(SubSeq(s, 2, Len(s)))
    ELSE IF Len(s) > 0 /\ SubSeq(s, Len(s), Len(s)) = " "
    THEN strip(SubSeq(s, 1, Len(s) - 1))
    ELSE s

\* The value of a decimal digit, -1 for any other character.
DigitValue(c) ==
    CASE c = "0" -> 0 [] c = "1" -> 1 [] c = "2" -> 2 [] c = "3" -> 3
      [] c = "4" -> 4 [] c = "5" -> 5 [] c = "6" -> 6 [] c = "7" -> 7
      [] c = "8" -> 8 [] c = "9" -> 9 [] OTHER -> -1

RECURSIVE Digits(_, _)
\* The number written by the digit string s after the digits read so far
\* gave acc; -1 when s holds anything but digits.
Digits(s, acc) ==
    IF Len(s) = 0 THEN acc
    ELSE IF DigitValue(SubSeq(s, 1, 1)) < 0 THEN -1
    ELSE Digits(SubSeq(s, 2, Len(s)), 10 * acc + DigitValue(SubSeq(s, 1, 1)))

\* int(s) for a string: blanks around, an optional sign, then digits;
\* anything else raises ValueError.
int(s) ==
    LET t      == strip(s)
        signed == Len(t) > 0 /\ SubSeq(t, 1, 1) \in {"-", "+"}
        digits == IF signed THEN SubSeq(t, 2, Len(t)) ELSE t
        n      == Digits(digits, 0)
    IN  IF Len(digits) = 0 \/ n < 0 THEN Raised("invalid literal for int()")
        ELSE Ok(IF signed /\ SubSeq(t, 1, 1) = "-" THEN 0 - n ELSE n)

\* Mutant: the limit is not capped.
UncappedLimit(param) ==
    IF ~param.given THEN Ok(DefaultLimit) ELSE int(param.value)

\* limit = min(int(request.GET.get('limit', 100)), 500)
Limit(param) ==
    IF ~param.given THEN Ok(Min(DefaultLimit, LimitCap))
    ELSE LET n == int(param.value)
         IN  IF n.raised THEN n ELSE Ok(Min(n.value, LimitCap))

\* "if site_id: device_query = device_query.filter(site_id=site_id)": the
\* filter converts the string to the key's integer type, which raises for
\* anything but a number.
FilterSite(query, param) ==
    IF ~param.given \/ param.value = "" THEN Ok(query)
    ELSE LET n == int(param.value)
         IN  IF n.raised THEN n
             ELSE Ok(SelectSeq(query, LAMBDA d :
                        d.site.present /\ d.site.id = n.value))

\* "if device_type: ...filter(device_type__model__icontains=device_type)"
FilterDeviceType(query, param) ==
    IF ~param.given \/ param.value = "" THEN query
    ELSE SelectSeq(query, LAMBDA d :
            /\ d.device_type.present
            /\ Contains(lower(param.value), lower(d.device_type.model)))

\* device_query[:limit]; a queryset refuses a negative bound.
Slice(query, limit) ==
    IF limit < 0 THEN Raised("Negative indexing is not supported.")
    ELSE Ok(Take(query, limit))

\* One entry of _serialize_devices (the keys this model's rows carry).
SerializedDevice(device) ==
    [id |-> device.id,
     name |-> device.name,
     display_name |-> device.name,
     device_type |->
        [model |-> IF device.device_type.present
                   THEN device.device_type.model ELSE "Unknown",
         manufacturer |->
            IF device.device_type.present /\ device.device_type.manufacturer # ""
            THEN device.device_type.manufacturer ELSE "Unknown"],
     site |-> [id |-> IF device.site.present THEN device.site.id ELSE NoneId,
               name |-> IF device.site.present THEN device.site.name
                        ELSE "Unknown"],
     role |-> [name |-> IF device.role.present THEN device.role.name
                        ELSE "Unknown"],
     status |-> [value |-> IF device.status # "" THEN device.status ELSE "unknown",
                 label |-> device.status],
     primary_ip4 |-> IF device.primary_ip4.present
                     THEN device.primary_ip4.address ELSE "None",
     primary_ip6 |-> IF device.primary_ip6.present
                     THEN device.primary_ip6.address ELSE "None"]

\* TopologyDataView._serialize_devices
_serialize_devices(devs) == [i \in 1..Len(devs) |-> SerializedDevice(devs[i])]

\* Interface.objects.filter(device_id__in=device_ids), serialized by
\* _serialize_interfaces: the interfaces of the devices of the slice.
_serialize_interfaces(devs) ==
    Flatten([i \in 1..Len(devs) |->
        [j \in 1..devs[i].interfaces |->
            [id |-> 10 * devs[i].id + j, name |-> "eth0",
             device |-> devs[i].id, device_name |-> devs[i].name,
             type |-> "1000base-t", enabled |-> TRUE, connected |-> FALSE]]])

\* Mutant: the error body is returned without status=500.
TopologyErrorNoStatus(msg) ==
    [propagated |-> FALSE, status |-> 200,
     body |-> [error |-> "Failed to generate topology data", message |-> msg]]

\* The JsonResponse of the except branch.
TopologyError(msg) ==
    [propagated |-> FALSE, status |-> 500,
     body |-> [error |-> "Failed to generate topology data", message |-> msg]]

\* The body of the try of TopologyDataView.get.
TopologyResponse(devs, flt, site, device_type, limit_param) ==
    LET limit == Limit(limit_param)
    IN  IF limit.raised THEN TopologyError(limit.value)
        ELSE
        LET by_site == FilterSite(devs, site)
        IN  IF by_site.raised THEN TopologyError(by_site.value)
            ELSE
            LET sliced == Slice(FilterDeviceType(by_site.value, device_type),
                                limit.value)
            IN  IF sliced.raised THEN TopologyError(sliced.value)
                ELSE IF "devices" \in flt THEN TopologyError("devices")
                ELSE IF "interfaces" \in flt THEN TopologyError("interfaces")
                ELSE IF \E i \in 1..Len(sliced.value) :
                           sliced.value[i].fault # "none"
                THEN TopologyError("device")
                ELSE
                LET interfaces == _serialize_interfaces(sliced.value)
                IN  [propagated |-> FALSE, status |-> 200,
                     body |->
                        [devices |-> _serialize_devices(sliced.value),
                         interfaces |-> interfaces,
                         connections |-> <<>>,
                         metadata |->
                            [total_devices |-> Len(sliced.value),
                             total_interfaces |-> Len(interfaces),
                             total_connections |-> 0,
                             generated_at |-> "now"]]]

\* The values of the limit, site and device_type parameters of a request.
LimitParams ==
    {NotGiven} \cup {Given(v) : v \in {"0", "1", "3", "100", "500", "501",
                                       "10000", "-1", "abc", "", " 2 "}}
SiteParams == {NotGiven} \cup {Given(v) : v \in {"", "1", "9", "hq"}}
DeviceTypeParams == {NotGiven} \cup {Given(v) : v \in {"", "cat", "ISR"}}

\* TopologyDataView.get
TopologyDataView_get ==
    /\ request.view = "none"
    /\ \E site \in SiteParams, device_type \in DeviceTypeParams,
          limit \in LimitParams :
          /\ request' = [view |-> "topology_api", site |-> site,
                         device_type |-> device_type, limit |-> limit]
          /\ response' = TopologyResponse(devices, faults, site, device_type, limit)
    /\ UNCHANGED <<devices, cables, circuits, faults, store>>

\* ------------------------------------------------------------------------
\* Specification SpecTopo: the dashboards over stores that vary in their
\* cables and terminations
\* ------------------------------------------------------------------------

MaxCables == 2       \* cables in the store

\* Two active devices at two sites and one planned device without a site.
TopoDevices ==
    << Device(1, "active", Site(1, "HQ"), Role("Core Switch"),
              DeviceType("Catalyst 9300", "Cisco")),
       Device(2, "active", Site(2, "Branch"), Role("Router"),
              DeviceType("ISR 4331", "Cisco")),
       Device(3, "planned", NoSite, NoRole, DeviceType("FortiGate 100F", "")) >>

Direct(d) == Termination("direct", d, "eth0")
Wrapped(d) == Termination("wrapped", d, "eth0")
NoDeviceTermination == Termination("circuit", NoneId, "")
Broken == Termination("broken", NoneId, "")

\* The termination collections a cable side may hold: none; an interface of
\* each device, that of device 2 behind a circuit termination, which exposes
\* no device; a termination record that wraps an interface of device 1; and
\* an object whose access raises in front of an interface of device 1.
TopoSides ==
    { <<>>, <<Direct(1)>>, <<NoDeviceTermination, Direct(2)>>, <<Direct(3)>>,
      <<Wrapped(1)>>, <<Broken, Direct(1)>> }

\* The cable table whose sides are, in order, A and B of the first cable,
\* then of the second, ...
CableTable(sides) ==
    [i \in 1..(Len(sides) \div 2) |->
        [id |-> i,
         type |-> IF i % 2 = 1 THEN "cat6" ELSE "",
         status |-> IF i % 2 = 1 THEN "connected" ELSE "",
         length |-> IF i % 2 = 1 THEN 5 ELSE 0,
         a_terminations |-> sides[2 * i - 1],
         b_terminations |-> sides[2 * i]]]

\* Two terminations of one circuit at the two sites.
TopoCircuits == << [circuit |-> 1, site_id |-> 1], [circuit |-> 1, site_id |-> 2] >>

InitTopo ==
    /\ devices = TopoDevices
    /\ \E k \in 0..MaxCables : \E sides \in [1..(2 * k) -> TopoSides] :
          cables = CableTable(sides)
    /\ circuits = TopoCircuits
    /\ faults = {}
    /\ request = NoRequest
    /\ response = NoResponse
    /\ store = {}

NextTopo ==
    \/ Dashboard_get_context_data
    \/ Enhanced_get_context_data

SpecTopo == InitTopo /\ [][NextTopo]_vars

\* ------------------------------------------------------------------------
\* Properties of the cable resolvers (checked under SpecTopo)
\* ------------------------------------------------------------------------

\* The payload of the request handled, when the handler returned one.
Served(view) == request.view = view /\ ~response.propagated
Payload == response.topology_data
Full(view) == Served(view) /\ "error" \notin DOMAIN Payload

RECURSIVE FirstDevice(_)
\* The device a cable side resolves to: that of the first termination, in
\* collection order, that exposes one; NoneId when the side is empty, exposes
\* none, or raises before one is found.
FirstDevice(terms) ==
    IF Len(terms) = 0 \/ Head(terms).shape = "broken" THEN NoneId
    ELSE IF Head(terms).shape \in {"wrapped", "direct"} THEN Head(terms).device
    ELSE FirstDevice(Tail(terms))

\* The positions in the payload's connections of the edges of cable c.
EdgesOf(c) ==
    {i \in 1..Len(Payload.connections) : Payload.connections[i].id = c.id}

\* The cable resolves to two distinct devices.
Resolved(c) ==
    /\ FirstDevice(c.a_terminations) # NoneId
    /\ FirstDevice(c.b_terminations) # NoneId
    /\ FirstDevice(c.a_terminations) # FirstDevice(c.b_terminations)

\* The cable resolves to the same device on both sides.
SelfLoop(c) ==
    /\ FirstDevice(c.a_terminations) # NoneId
    /\ FirstDevice(c.a_terminations) = FirstDevice(c.b_terminations)

LoadedEnhanced == Take(devices, EnhancedDeviceCap)
LoadedDashboard == DashboardLoadDevices(devices)

\* C1: in the enhanced payload, every loaded cable that resolves to two
\* distinct loaded devices has exactly one edge, from its A-side device to its
\* B-side device.
C1_ExactlyOneEdge ==
    Full("enhanced") =>
        \A k \in 1..Len(Take(cables, EnhancedCableCap)) :
            LET c == cables[k]
            IN  ( /\ Resolved(c)
                  /\ InList(FirstDevice(c.a_terminations), Ids(LoadedEnhanced))
                  /\ InList(FirstDevice(c.b_terminations), Ids(LoadedEnhanced)) )
                => /\ Cardinality(EdgesOf(c)) = 1
                   /\ \A i \in EdgesOf(c) :
                        /\ Payload.connections[i].source
                              = FirstDevice(c.a_terminations)
                        /\ Payload.connections[i].target
                              = FirstDevice(c.b_terminations)

\* C2: the enhanced payload has no edge from a device to itself, and a cable
\* that resolves to one device on both sides has no edge at all.
C2_EnhancedNoSelfLoop ==
    Full("enhanced") =>
        /\ \A i \in 1..Len(Payload.connections) :
              Payload.connections[i].source # Payload.connections[i].target
        /\ \A k \in 1..Len(cables) : SelfLoop(cables[k]) => EdgesOf(cables[k]) = {}

\* C2 witness: the enhanced dashboard served a store holding a cable with
\* both sides on one device, which the cable filter kept.
C2_Witness ==
    /\ Full("enhanced")
    /\ \E k \in 1..Len(cables) :
          /\ SelfLoop(cables[k])
          /\ FilterKeeps(cables[k], Ids(LoadedEnhanced))

\* C3: the simple dashboard's payload has no edge from a device to itself.
C3_DashboardNoSelfLoop ==
    Full("dashboard") =>
        \A i \in 1..Len(Payload.connections) :
            Payload.connections[i].source # Payload.connections[i].target

\* cables without the k-th row
Without(cbls, k) == SubSeq(cbls, 1, k - 1) \o SubSeq(cbls, k + 1, Len(cbls))

\* The cable has an empty termination collection on a side.
EmptySide(c) == Len(c.a_terminations) = 0 \/ Len(c.b_terminations) = 0

\* Walking the cable's terminations raises in the simple dashboard.
DashboardRaises(c) ==
    \/ DashboardWalk(c.a_terminations).raised
    \/ DashboardWalk(c.b_terminations).raised

\* Walking the cable's terminations raises in the enhanced dashboard.
EnhancedRaises(c) ==
    \/ EnhancedWalk(c.a_terminations, Ids(LoadedEnhanced)).raised
    \/ EnhancedWalk(c.b_terminations, Ids(LoadedEnhanced)).raised

\* C4: in both dashboards a cable with an empty side, or whose traversal
\* raises, has no edge, and the connections are those of the same store
\* without that cable.
C4_FaultyCableIsolated ==
    /\ Full("dashboard") =>
          \A k \in 1..Len(cables) :
              (EmptySide(cables[k]) \/ DashboardRaises(cables[k])) =>
                 /\ EdgesOf(cables[k]) = {}
                 /\ Payload.connections =
                      Dashboard_get_topology_data(
                          devices, Without(cables, k), faults).connections
    /\ Full("enhanced") =>
          \A k \in 1..Len(cables) :
              (EmptySide(cables[k]) \/ EnhancedRaises(cables[k])) =>
                 /\ EdgesOf(cables[k]) = {}
                 /\ Payload.connections =
                      _get_enhanced_topology_data(
                          devices, Without(cables, k), circuits,
                          faults).connections

\* C4 witness: the simple dashboard loaded a first cable whose traversal
\* raises and a second cable, which has an edge.
C4_Witness ==
    /\ Full("dashboard")
    /\ Len(cables) = 2
    /\ DashboardCableMatches(cables[1], Ids(LoadedDashboard))
    /\ DashboardRaises(cables[1])
    /\ EdgesOf(cables[2]) # {}

\* ------------------------------------------------------------------------
\* Specification SpecClassify: the dashboards over one device whose role
\* and device type vary
\* ------------------------------------------------------------------------

\* Role names and model strings: the spec's examples, one name per keyword
\* family, names matching several rules and names matching none.
Names ==
    {"Core Switch", "Router", "Edge Firewall", "Security Appliance",
     "Access Point", "Laptop", "Wireless Bridge", "Server", "Virtual Host",
     "Switch Router", "PDU", "",
     "Catalyst 9300", "ISR 4331", "FortiGate 100F", "FortiGate Switch Module",
     "AP-305", "PowerEdge R740", "VMware ESXi", "Nexus ASR"}

InitClassify ==
    /\ \E r \in {NoRole} \cup {Role(n) : n \in Names} :
       \E dt \in {NoDeviceType} \cup {DeviceType(n, "Acme") : n \in Names} :
          devices = << Device(1, "active", Site(1, "HQ"), r, dt) >>
    /\ cables = <<>>
    /\ circuits = <<>>
    /\ faults = {}
    /\ request = NoRequest
    /\ response = NoResponse
    /\ store = {}

NextClassify ==
    \/ Dashboard_get_context_data
    \/ Enhanced_get_context_data

SpecClassify == InitClassify /\ [][NextClassify]_vars

\* ------------------------------------------------------------------------
\* Properties of the device classifier (checked under SpecClassify)
\* ------------------------------------------------------------------------

\* The keyword rules as the two if/elif chains list them.
RoleKeywords ==
    << [category |-> "switch",   keywords |-> {"switch"}],
       [category |-> "router",   keywords |-> {"router"}],
       [category |-> "firewall", keywords |-> {"firewall", "security"}],
       [category |-> "ap",       keywords |-> {"access point", "ap", "wireless"}],
       [category |-> "server",   keywords |-> {"server", "vm", "virtual"}] >>

ModelKeywords ==
    << [category |-> "switch",   keywords |-> {"switch", "catalyst", "nexus", "ex-", "qfx"}],
       [category |-> "router",   keywords |-> {"router", "isr", "asr", "mx-", "srx"}],
       [category |-> "firewall", keywords |-> {"firewall", "pa-", "asa", "fortigate"}],
       [category |-> "ap",       keywords |-> {"ap-", "access point", "wireless", "wifi"}],
       [category |-> "server",   keywords |-> {"server", "poweredge", "proliant", "vm"}] >>

RECURSIVE FirstMatch(_, _)
\* The category of the first rule with a keyword in s; "unknown" without one.
FirstMatch(rules, s) ==
    IF Len(rules) = 0 THEN "unknown"
    ELSE IF \E k \in Head(rules).keywords : Contains(k, s) THEN Head(rules).category
    ELSE FirstMatch(Tail(rules), s)

\* The one device of the store and its entry in the payload.
TheDevice == devices[1]
TheEntry == Payload.devices[1]
Classified == (Full("dashboard") \/ Full("enhanced")) /\ Len(Payload.devices) = 1

C6_RolePrecedence ==
    ( /\ Classified
      /\ TheDevice.role.present
      /\ FirstMatch(RoleKeywords, lower(TheDevice.role.name)) # "unknown" )
    => TheEntry.type = FirstMatch(RoleKeywords, lower(TheDevice.role.name))

\* C7 as claimed: without a role, the model string S is classified by the
\* role rules, as the role name S would be.
C7_SameRulesForModel ==
    (Classified /\ ~TheDevice.role.present /\ TheDevice.device_type.present)
    => TheEntry.type = FirstMatch(RoleKeywords, lower(TheDevice.device_type.model))

\* C7 amended: when no role rule matches (no role, or a role name without a
\* role keyword), a device with a device type is classified by the model
\* keyword lists, first match in the order switch, router,
\* firewall, ap, server, and is unknown when no list matches.
C7_ModelRulesForModel ==
    ( /\ Classified
      /\ TheDevice.device_type.present
      /\ \/ ~TheDevice.role.present
         \/ FirstMatch(RoleKeywords, lower(TheDevice.role.name)) = "unknown" )
    => TheEntry.type = FirstMatch(ModelKeywords, lower(TheDevice.device_type.model))

\* C7 witness: a device without role was classified as a switch by a model
\* keyword that no role rule has.
C7_Witness ==
    /\ Classified
    /\ ~TheDevice.role.present
    /\ TheDevice.device_type.present
    /\ TheDevice.device_type.model = "Catalyst 9300"
    /\ TheEntry.type = "switch"

\* C8: without a role, a model containing 'fortigate' and no switch or router
\* model keyword is a firewall, and a model matching no model keyword is
\* unknown.
C8_ModelFallback ==
    (Classified /\ ~TheDevice.role.present /\ TheDevice.device_type.present) =>
        LET model == lower(TheDevice.device_type.model)
        IN  /\ ( /\ Contains("fortigate", model)
                 /\ ~\E k \in ModelKeywords[1].keywords \cup ModelKeywords[2].keywords :
                        Contains(k, model) )
               => TheEntry.type = "firewall"
            /\ (\A i \in 1..Len(ModelKeywords) :
                   \A k \in ModelKeywords[i].keywords : ~Contains(k, model))
               => TheEntry.type = "unknown"

\* C8 witness: 'FortiGate 100F' without a role was classified as a firewall.
C8_Witness ==
    /\ Classified
    /\ ~TheDevice.role.present
    /\ TheDevice.device_type.present
    /\ TheDevice.device_type.model = "FortiGate 100F"
    /\ TheEntry.type = "firewall"

\* ------------------------------------------------------------------------
\* Specification SpecApi: the topology endpoint over device tables of up to
\* MaxApiDevices rows
\* ------------------------------------------------------------------------

MaxApiDevices == 501

\* The i-th device of the endpoint's store: sites and models alternate.
ApiDevice(i) ==
    [Device(i, "active",
            IF i % 3 = 0 THEN NoSite
            ELSE IF i % 3 = 1 THEN Site(1, "HQ") ELSE Site(2, "Branch"),
            IF i % 2 = 0 THEN NoRole ELSE Role("Core Switch"),
            IF i % 4 = 0 THEN NoDeviceType
            ELSE IF i % 4 = 2 THEN DeviceType("ISR 4331", "Cisco")
            ELSE DeviceType("Catalyst 9300", ""))
     EXCEPT !.interfaces = i % 2]

ApiStoreSizes == {0, 2, 7, 150, MaxApiDevices}

InitApi ==
    /\ \E n \in ApiStoreSizes : devices = [i \in 1..n |-> ApiDevice(i)]
    /\ cables = <<>>
    /\ circuits = <<>>
    /\ faults \in {{}, {"devices"}, {"interfaces"}}
    /\ request = NoRequest
    /\ response = NoResponse
    /\ store = {}

NextApi == TopologyDataView_get

SpecApi == InitApi /\ [][NextApi]_vars

\* ------------------------------------------------------------------------
\* Properties of the topology endpoint (checked under SpecApi)
\* ------------------------------------------------------------------------

ApiServed == request.view = "topology_api" /\ ~response.propagated
ApiOk == ApiServed /\ response.status = 200

\* The device satisfies the request's site and device_type filters.
MatchesFilters(d) ==
    /\ (request.site.given /\ request.site.value # "") =>
          (d.site.present /\ d.site.id = int(request.site.value).value)
    /\ (request.device_type.given /\ request.device_type.value # "") =>
          /\ d.device_type.present
          /\ Contains(lower(request.device_type.value), lower(d.device_type.model))

\* The limit the request asks for: the parameter's number, 100 without one.
AskedLimit ==
    IF request.limit.given THEN int(request.limit.value).value ELSE 100

\* C9: the response never holds more than 500 devices, nor more than an
\* integer limit between 0 and 500, nor more than 100 without a limit; the
\* devices returned are the first ones of those that pass the filters.
C9_DeviceCap ==
    ApiOk =>
        LET n == Len(response.body.devices)
        IN  /\ n <= 500
            /\ (request.limit.given /\ AskedLimit \in 0..500) => n <= AskedLimit
            /\ ~request.limit.given => n <= 100
            /\ [i \in 1..n |-> response.body.devices[i].id]
                 = Ids(Take(SelectSeq(devices, MatchesFilters),
                            IF AskedLimit < 500 THEN AskedLimit ELSE 500))

\* C9 witness: limit=10000 over a store of more than 500 devices returned
\* 500 devices.
C9_Witness ==
    /\ ApiOk
    /\ request.limit = Given("10000")
    /\ Len(devices) > 500
    /\ Len(response.body.devices) = 500

\* The limit parameter is not an integer, or is negative.
BadLimit ==
    /\ request.limit.given
    /\ \/ int(request.limit.value).raised
       \/ int(request.limit.value).value < 0

\* The site parameter is given and is not a number.
BadSite ==
    /\ request.site.given
    /\ request.site.value # ""
    /\ int(request.site.value).raised

\* C10: the endpoint always returns a response: status 500 with exactly the
\* keys error and message when the limit is not an integer or negative or a
\* store query fails, and a body with the keys devices, interfaces,
\* connections and metadata when nothing fails.
C10_ErrorBody ==
    request.view = "topology_api" =>
        /\ ~response.propagated
        /\ \/ /\ response.status = 500
              /\ DOMAIN response.body = {"error", "message"}
           \/ /\ response.status = 200
              /\ DOMAIN response.body
                    = {"devices", "interfaces", "connections", "metadata"}
        /\ (BadLimit \/ faults # {}) => response.status = 500
        /\ (~BadLimit /\ ~BadSite /\ faults = {}) => response.status = 200

\* C10 witness: a request with a negative limit got the error body.
C10_Witness ==
    /\ ApiServed
    /\ request.limit = Given("-1")
    /\ faults = {}
    /\ response.status = 500
    /\ DOMAIN response.body = {"error", "message"}

\* ------------------------------------------------------------------------
\* DebugDataView.get
\* ------------------------------------------------------------------------

DebugStatusSample == 50   \* Device.objects.all()[:50]
DebugDeviceSample == 10   \* ...select_related(...)[:10] and site_data[:10]

\* The keyword arguments HttpResponse.__init__ accepts; JsonResponse hands it
\* every keyword argument that is not encoder, safe or json_dumps_params.
HttpResponseKwargs == {"content_type", "status", "reason", "charset", "headers"}

\* JsonResponse(data, **kwargs): the response, or the TypeError of an
\* unexpected keyword argument.
JsonResponse(data, kwargs) ==
    IF DOMAIN kwargs \subseteq HttpResponseKwargs
    THEN Ok([propagated |-> FALSE,
             status |-> IF "status" \in DOMAIN kwargs THEN kwargs.status ELSE 200,
             body |-> data])
    ELSE Raised("__init__() got an unexpected keyword argument")

\* site__name of a row: the site's name, "None" for a row without site.
SiteNameOf(d) == IF d.site.present THEN d.site.name ELSE "None"

\* The dict debug_info at the return statement of the try.
DebugInfo(devs, cbls) ==
    LET first50 == Take(devs, DebugStatusSample)
        first10 == Take(devs, DebugDeviceSample)
        names   == {SiteNameOf(devs[i]) : i \in 1..Len(devs)}
    IN  [total_devices |-> Len(devs),
         devices_with_sites |-> Len(SelectSeq(devs, LAMBDA d : d.site.present)),
         total_sites |-> Cardinality(names),
         total_cables |-> Len(cbls),
         device_statuses |->
            [st \in {first50[i].status : i \in 1..Len(first50)} |->
                Len(SelectSeq(first50, LAMBDA d : d.status = st))],
         sample_devices |->
            [i \in 1..Len(first10) |->
                [id |-> first10[i].id,
                 name |-> first10[i].name,
                 site |-> SiteNameOf(first10[i]),
                 status |-> first10[i].status,
                 device_type |-> IF first10[i].device_type.present
                                 THEN first10[i].device_type.model ELSE "None",
                 role |-> IF first10[i].role.present
                          THEN first10[i].role.name ELSE "None"]],
         \* the named sites with their device counts; the ten largest, which
         \* are all of them while the store has at most ten site names
         sites |->
            {[name |-> n,
              device_count |-> Len(SelectSeq(devs, LAMBDA d : SiteNameOf(d) = n))] :
                n \in names \ {"None"}}]

\* The except branch of DebugDataView.get.
DebugError(msg) ==
    [propagated |-> FALSE, status |-> 500,
     body |-> [error |-> msg, message |-> "Debug data collection failed"]]

\* The body of the try of DebugDataView.get: the queries, then
\* "return JsonResponse(debug_info, indent=2)".
DebugResponse(devs, cbls, flt) ==
    IF "counts" \in flt THEN DebugError("counts")
    ELSE IF "devices" \in flt THEN DebugError("devices")
    ELSE IF \E i \in 1..Len(Take(devs, DebugDeviceSample)) : devs[i].fault = "site"
    THEN DebugError("device")
    ELSE LET made == JsonResponse(DebugInfo(devs, cbls), [indent |-> 2])
         IN  IF made.raised THEN DebugError(made.value) ELSE made.value

\* DebugDataView.get
DebugDataView_get ==
    /\ request.view = "none"
    /\ request' = [view |-> "debug"]
    /\ response' = DebugResponse(devices, cables, faults)
    /\ UNCHANGED <<devices, cables, circuits, faults, store>>

\* ------------------------------------------------------------------------
\* Specification SpecFault: the dashboards over stores whose device rows
\* vary in site, status and malformation, and whose queries may fail
\* ------------------------------------------------------------------------

MaxFaultDevices == 3   \* devices in the store

\* The kinds of device row: well-formed rows at two sites, at a third site
\* that shares its name with the first, and without a site, a row that is
\* not active, and rows whose site or interface access raises.
DeviceKinds ==
    { [status |-> "active",  site |-> Site(1, "HQ"),     fault |-> "none"],
      [status |-> "active",  site |-> Site(3, "HQ"),     fault |-> "none"],
      [status |-> "active",  site |-> Site(2, "Branch"), fault |-> "none"],
      [status |-> "active",  site |-> NoSite,            fault |-> "none"],
      [status |-> "planned", site |-> Site(1, "HQ"),     fault |-> "none"],
      [status |-> "active",  site |-> Site(2, "Branch"), fault |-> "interfaces"],
      [status |-> "active",  site |-> Site(1, "HQ"),     fault |-> "site"] }

\* The device row with id i of the given kind.
KindDevice(i, kind) ==
    [Device(i, kind.status, kind.site, Role("Router"),
            DeviceType("ISR 4331", "Cisco")) EXCEPT !.fault = kind.fault]

\* Cable tables between devices 1 and 2: none, one cable, and a cable whose
\* traversal raises in front of a second cable.
FaultCableTables ==
    { CableTable(<<>>),
      CableTable(<< <<Direct(1)>>, <<Direct(2)>> >>),
      CableTable(<< <<Broken, Direct(1)>>, <<Direct(2)>>,
                    <<Direct(2)>>, <<Wrapped(1)>> >>),
      CableTable(<< <<Direct(2)>>, <<Broken>>,
                    <<Direct(1)>>, <<Direct(2)>> >>) }

\* The store queries that may fail while one request is handled.
FaultSets == {{}, {"counts"}, {"devices"}, {"cables"}, {"circuits"}}

InitFault ==
    /\ \E n \in 0..MaxFaultDevices : \E kinds \in [1..n -> DeviceKinds] :
          devices = [i \in 1..n |-> KindDevice(i, kinds[i])]
    /\ cables \in FaultCableTables
    /\ circuits = TopoCircuits
    /\ faults \in FaultSets
    /\ request = NoRequest
    /\ response = NoResponse
    /\ store = {}

NextFault ==
    \/ Dashboard_get_context_data
    \/ Enhanced_get_context_data
    \/ DebugDataView_get

SpecFault == InitFault /\ [][NextFault]_vars

\* ------------------------------------------------------------------------
\* Properties of the payload and of the error handling (checked under
\* SpecFault)
\* ------------------------------------------------------------------------

\* The ids of the serialized devices of a list.
EntryIds(entries) == [i \in 1..Len(entries) |-> entries[i].id]

\* C11: in the payload of either dashboard the three counts are the lengths
\* of devices, sites and connections, devices is the concatenation of the
\* sites' device lists, and no device id appears in two entries.
C11_CountsMatchContent ==
    (Served("dashboard") \/ Served("enhanced")) =>
        /\ Payload.stats.total_devices = Len(Payload.devices)
        /\ Payload.stats.total_sites = Len(Payload.sites)
        /\ Payload.stats.total_connections = Len(Payload.connections)
        /\ Payload.devices
             = Flatten([i \in 1..Len(Payload.sites) |-> Payload.sites[i].devices])
        /\ \A i, j \in 1..Len(Payload.devices) :
              Payload.devices[i].id = Payload.devices[j].id => i = j
        /\ \A i \in 1..Len(Payload.devices) :
              Cardinality({k \in 1..Len(Payload.sites) :
                 InList(Payload.devices[i], Payload.sites[k].devices)}) = 1

\* C11 witness: a payload with devices in two site groups and a connection.
C11_Witness ==
    /\ Full("enhanced")
    /\ Len(Payload.sites) >= 2
    /\ Len(Payload.devices) = 3
    /\ Len(Payload.sites[1].devices) >= 1
    /\ Len(Payload.sites[2].devices) >= 1
    /\ Len(Payload.connections) >= 1

\* The cable stage of the enhanced loader fails: the cable query raises, or
\* no cable is kept and the circuit termination query raises.
CableStageFails ==
    \/ "cables" \in faults
    \/ /\ "circuits" \in faults
       /\ FilterCables(Take(cables, EnhancedCableCap), Ids(LoadedEnhanced)) = <<>>

\* Building the enhanced payload fails outside the inner try: the device
\* query raises, or a row's site cannot be read.
EnhancedBuildFails ==
    \/ "devices" \in faults
    \/ \E i \in 1..Len(LoadedEnhanced) : LoadedEnhanced[i].fault = "site"

\* The payload is the empty topology with an error string.
IsEmptyTopology(p) ==
    /\ p.devices = <<>> /\ p.sites = <<>> /\ p.connections = <<>>
    /\ p.stats = [total_devices |-> 0, total_sites |-> 0, total_connections |-> 0]
    /\ "error" \in DOMAIN p

\* C12: when the cable stage of the enhanced loader fails, the payload lists
\* every well-formed loaded device, has no connection and carries the error
\* in its debug entry cable_error; when building the payload fails as well,
\* the result is the empty topology with an error string.
C12_TwoLevelFallback ==
    Served("enhanced") =>
        /\ (CableStageFails /\ ~EnhancedBuildFails) =>
              /\ "error" \notin DOMAIN Payload
              /\ "cable_error" \in DOMAIN Payload.debug
              /\ Payload.connections = <<>>
              /\ {Payload.devices[i].id : i \in 1..Len(Payload.devices)}
                    = {LoadedEnhanced[i].id : i \in {j \in 1..Len(LoadedEnhanced) :
                                                LoadedEnhanced[j].fault = "none"}}
        /\ EnhancedBuildFails => IsEmptyTopology(Payload)

\* C12 witness: the cable query failed over a store of two or more
\* well-formed devices, which the payload lists.
C12_Witness ==
    /\ Served("enhanced")
    /\ "cables" \in faults
    /\ Len(devices) >= 2
    /\ \A i \in 1..Len(devices) : devices[i].fault = "none"
    /\ Len(Payload.devices) = Len(devices)
    /\ "cable_error" \in DOMAIN Payload.debug

\* The rows of the store whose processing raises nothing.
WellFormed == SelectSeq(devices, LAMBDA d : d.fault = "none")

\* The payload the view of the request returns over the store without its
\* malformed rows.
WithoutMalformed ==
    IF request.view = "dashboard"
    THEN Dashboard_get_topology_data(WellFormed, cables, faults)
    ELSE _get_enhanced_topology_data(WellFormed, cables, circuits, faults)

\* C13: when no query fails, a malformed device row costs only its own
\* entry: the payload lists every device it would list without the malformed
\* rows and holds every connection it would hold without them.
C13_RecordErrorIsolated ==
    ((Served("dashboard") \/ Served("enhanced")) /\ faults = {}) =>
        /\ \A i \in 1..Len(WithoutMalformed.devices) :
              InList(WithoutMalformed.devices[i], Payload.devices)
        /\ \A i \in 1..Len(WithoutMalformed.connections) :
              InList(WithoutMalformed.connections[i], Payload.connections)

\* C14: whatever store query fails, get_context_data of either dashboard
\* returns a context, which carries a topology payload.
C14_NeverPropagates ==
    request.view \in {"dashboard", "enhanced"} =>
        /\ ~response.propagated
        /\ "topology_data" \in DOMAIN response

\* The keys of the body DebugDataView.get builds.
DebugKeys ==
    {"total_devices", "devices_with_sites", "total_sites", "total_cables",
     "device_statuses", "sample_devices", "sites"}

\* C20: when every store query succeeds, DebugDataView.get responds with
\* status 200 and a body holding the counts, the status breakdown, the
\* sample devices and the per-site counts; the error body comes with status
\* 500 only when collecting the data fails.
C20_DebugSuccess ==
    request.view = "debug" =>
        /\ ~response.propagated
        /\ (faults = {} /\ \A i \in 1..Len(devices) : devices[i].fault = "none") =>
              /\ response.status = 200
              /\ DebugKeys \subseteq DOMAIN response.body

\* The ids of the rows of a list that are not active.
NotActiveIds(devs) ==
    {devs[i].id : i \in {j \in 1..Len(devs) : devs[j].status # "active"}}

MaxSites == 2

\* One row: model, site number, name (or name prefix), index, port.
Row(model, site, name, index, port) == <<model, site, name, index, port>>

RowsOf(st, model) == { r \in st : r[1] = model }

\* The rows create_demo_data writes before its per-site loop.
DemoGlobalRows ==
    { Row("TenantGroup", 0, "Demo Tenants", 0, 0),
      Row("Tenant", 0, "Demo Tenant", 0, 0),
      Row("ClusterType", 0, "VMware", 0, 0),
      Row("ClusterGroup", 0, "Demo Clusters", 0, 0),
      Row("Provider", 0, "Demo Provider", 0, 0),
      Row("CircuitType", 0, "Internet", 0, 0),
      Row("VLANGroup", 0, "Demo VLANs", 0, 0) }
    \cup { Row("Manufacturer", 0, n, 0, 0) :
             n \in {"Cisco", "Juniper", "Aruba", "Dell"} }
    \cup { Row("DeviceType", 0, n, 0, 0) :
             n \in {"Catalyst 9300", "ISR 4331", "AP-515", "PowerEdge R640"} }
    \cup { Row("DeviceRole", 0, n, 0, 0) :
             n \in {"Switch", "Router", "Access Point", "Server"} }

\* The device name prefixes of one pass of `for i in range(5)`.
DemoDeviceKinds == {"sw", "rtr", "ap", "srv"}

\* The rows the loop body writes for site `site_num`.  The loop bounds are
\* the literals of the code; devices_per_site appears nowhere in them.
DemoSiteRows(site_num) ==
    { Row("Site", site_num, "Demo Site", 0, 0),
      Row("Rack", site_num, "Rack 1", 0, 0),
      Row("VLAN", site_num, "VLAN", 100 + site_num, 0),
      Row("Prefix", site_num, "10.n.0.0/24", 0, 0),
      Row("Cluster", site_num, "Cluster-", 0, 0) }
    \cup { Row("Device", site_num, k, i, 0) : k \in DemoDeviceKinds, i \in 1..5 }
    \cup { Row("Interface", site_num, k, i, e) :
             k \in DemoDeviceKinds, i \in 1..5, e \in 1..2 }
    \cup { Row("VirtualMachine", site_num, "vm", v, 0) : v \in 1..5 }
    \cup { Row("VMInterface", site_num, "vm", v, e) : v \in 1..5, e \in 1..2 }
    \cup { Row("IPAddress", site_num, "10.n.0.h/24", h, 0) : h \in 1..20 }

\* Everything the transaction.atomic() block of create_demo_data writes.
DemoRows(sites) == DemoGlobalRows \cup UNION { DemoSiteRows(n) : n \in 1..sites }

\* A write raises when it would create a row of a model named in `faults`.
WriteFails(st, rows) == \E r \in rows \ st : r[1] \in faults

\* Device.objects.filter(role__name=role)[:n]: the first n devices of that
\* role in primary-key order, which is the order the loop created them in.
FirstDevices(st, kind, n) ==
    LET devs == { r \in RowsOf(st, "Device") : r[3] = kind }
        Before(a, b) == a[2] < b[2] \/ (a[2] = b[2] /\ a[4] < b[4])
    IN  { r \in devs : Cardinality({ q \in devs : Before(q, r) }) < n }

\* device.interfaces.filter(name__icontains='eth<port>')[:1] is non-empty.
HasInterface(st, dev, port) ==
    Row("Interface", dev[2], dev[3], dev[4], port) \in st

\* The (a, b) device pairs for which the cable phase reaches
\* Cable.objects.get_or_create: switch i with router i on eth0, then
\* switch i with switch i+1 on eth1.
DemoCablePairs(st) ==
    LET switches == FirstDevices(st, "sw", 5)
        routers  == FirstDevices(st, "rtr", 3)
        Rank(d, set) == Cardinality({ q \in set :
                            q[2] < d[2] \/ (q[2] = d[2] /\ q[4] < d[4]) })
    IN  { p \in (switches \X routers \X {0}) :
               /\ Rank(p[1], switches) = Rank(p[2], routers)
               /\ HasInterface(st, p[1], 0) /\ HasInterface(st, p[2], 0) }
        \cup
        { p \in (switches \X switches \X {1}) :
               /\ Rank(p[2], switches) = Rank(p[1], switches) + 1
               /\ HasInterface(st, p[1], 1) /\ HasInterface(st, p[2], 1) }

\* Mutant: every run of the phase adds one more cable.
DemoCablePhaseAlwaysCreates(st) ==
    LET n      == Cardinality(RowsOf(st, "Cable"))
        cable  == Row("Cable", 0, "cat6", n + 1, 0)
        terms  == { Row("CableTermination", 0, e, n + 1, 0) : e \in {"A", "B"} }
    IN  IF DemoCablePairs(st) = {}
        THEN [store |-> st, error |-> FALSE, cable_count |-> 0]
        ELSE [store |-> st \cup {cable} \cup terms, error |-> FALSE,
              cable_count |-> 1]

\* The test-cable phase, which runs after the atomic block has committed.
\* get_or_create is called without lookup arguments, so it fetches the one
\* existing cable, raises MultipleObjectsReturned when there are several, and
\* creates a cable only when there is none.  Every exception is caught and
\* reported as a warning.  cable_count counts the cables for which
\* get_or_create answered created; it is printed when nothing was raised.
DemoCablePhase(st) ==
    LET pairs  == DemoCablePairs(st)
        n      == Cardinality(RowsOf(st, "Cable"))
        cable  == Row("Cable", 0, "cat6", 1, 0)
        terms  == { Row("CableTermination", 0, e, 1, 0) : e \in {"A", "B"} }
    IN  IF pairs = {} \/ n = 1
        THEN [store |-> st, error |-> FALSE, cable_count |-> 0]
        ELSE IF n > 1 \/ "Cable" \in faults
             THEN [store |-> st, error |-> TRUE, cable_count |-> 0]
        ELSE IF "CableTermination" \in faults
             THEN [store |-> st \cup {cable}, error |-> TRUE, cable_count |-> 0]
        ELSE [store |-> st \cup {cable} \cup terms, error |-> FALSE,
              cable_count |-> 1]

\* create_demo_data(sites, devices_per_site) run against store `st`.  A write
\* that fails inside the atomic block rolls the block back and the exception
\* leaves the function; the cable phase follows the commit.
create_demo_data(st, sites, devices_per_site) ==
    IF WriteFails(st, DemoRows(sites))
    THEN [store |-> st, outcome |-> "raised", error |-> TRUE, cable_count |-> 0]
    ELSE LET phase == DemoCablePhase(st \cup DemoRows(sites))
         IN  [store |-> phase.store, outcome |-> "returned",
              error |-> phase.error, cable_count |-> phase.cable_count]

\* The values of --devices-per-site tried; 10 is the parser's default.
DevicesPerSiteArgs == {3, 10, 20}

\* python populate_demo_data.py --sites s --devices-per-site d
populate_demo_data_main ==
    /\ request.view = "none"
    /\ \E s \in 0..MaxSites, d \in DevicesPerSiteArgs :
          LET run == create_demo_data(store, s, d)
          IN  /\ request' = [view |-> "create_demo_data", sites |-> s,
                             devices_per_site |-> d]
              /\ response' = [outcome |-> run.outcome, error |-> run.error,
                              value |-> "None", cable_count |-> run.cable_count]
              /\ store' = run.store
    /\ UNCHANGED <<devices, cables, circuits, faults>>

\* The same command line run a second time, right after the first.
populate_demo_data_again ==
    /\ request.view = "create_demo_data"
    /\ LET run == create_demo_data(store, request.sites, request.devices_per_site)
       IN  /\ request' = [request EXCEPT !.view = "create_demo_data_again"]
           /\ response' = [outcome |-> run.outcome, error |-> run.error,
                           value |-> "None", cable_count |-> run.cable_count]
           /\ store' = run.store
    /\ UNCHANGED <<devices, cables, circuits, faults>>

\* The write groups main() of populate_comprehensive_network.py goes through,
\* in call order.  Each data list of the script is represented by its first
\* entry.  `mode` is how the group treats a failing write:
\*   "autocommit"  no transaction; the exception leaves the stage
\*   "atomic"      inside transaction.atomic(); the exception leaves the stage
\*   "caught"      inside transaction.atomic() and a try/except in the loop
\*   "skipped"     no transaction, a try/except in the loop
MainSteps ==
    << [stage |-> "create_manufacturers", mode |-> "autocommit",
        rows |-> << Row("Manufacturer", 0, "Cisco", 0, 0) >>],
       [stage |-> "create_device_types", mode |-> "autocommit",
        rows |-> << Row("DeviceRole", 0, "Core Switch", 0, 0),
                    Row("DeviceType", 0, "Catalyst 9500-48Y4C", 0, 0) >>],
       [stage |-> "create_sites_and_locations", mode |-> "autocommit",
        rows |-> << Row("Site", 0, "Headquarters", 0, 0),
                    Row("Location", 0, "Server Room", 0, 0) >>],
       [stage |-> "create_racks", mode |-> "autocommit",
        rows |-> << Row("RackRole", 0, "Network Equipment", 0, 0),
                    Row("Rack", 0, "Rack-HQ-01", 0, 0) >>],
       [stage |-> "create_vlans_and_subnets", mode |-> "autocommit",
        rows |-> << Row("VLANGroup", 0, "Headquarters", 0, 0),
                    Row("VLAN", 0, "Default", 1, 0),
                    Row("Prefix", 0, "10.1.10.0/24", 0, 0) >>],
       [stage |-> "create_comprehensive_devices", mode |-> "atomic",
        rows |-> << Row("Device", 0, "HQ-CORE-SW-01", 0, 0),
                    Row("Interface", 0, "HQ-CORE-SW-01", 0, 0),
                    Row("IPAddress", 0, "10.1.10.10/24", 0, 0) >>],
       [stage |-> "create_network_cables", mode |-> "caught",
        rows |-> << Row("Cable", 0, "HQ-CORE-SW-01", 0, 0),
                    Row("CableTermination", 0, "HQ-CORE-SW-01", 0, 0) >>],
       [stage |-> "create_wireless_infrastructure", mode |-> "skipped",
        rows |-> << Row("WirelessLANGroup", 0, "Corporate", 0, 0),
                    Row("WirelessLAN", 0, "Corp-WiFi", 0, 0) >>],
       [stage |-> "create_vpn_tunnels", mode |-> "autocommit",
        rows |-> << Row("TunnelGroup", 0, "Site-to-Site VPN", 0, 0) >>],
       [stage |-> "create_vpn_tunnels", mode |-> "atomic",
        rows |-> << Row("Tunnel", 0, "HQ-to-BE-Tunnel", 0, 0) >> ] >>

\* The rows of `rows` written before the first write that raises.
RECURSIVE WrittenBeforeFailure(_, _)
WrittenBeforeFailure(st, rows) ==
    IF rows = <<>> \/ WriteFails(st, {Head(rows)}) THEN {}
    ELSE {Head(rows)} \cup WrittenBeforeFailure(st, Tail(rows))

\* Cable(...).save() always inserts: the cable and its terminations get the
\* next free index, where every other row is looked up by get_or_create.
FreshRow(st, r) ==
    IF r[1] \in {"Cable", "CableTermination"}
    THEN [r EXCEPT ![4] = Cardinality(RowsOf(st, "Cable")) + 1]
    ELSE r

\* One write group against store `st`: the store it leaves, whether an error
\* was reported, and whether the exception left the stage.
RunStep(st, step) ==
    LET all    == { FreshRow(st, step.rows[i]) : i \in 1..Len(step.rows) }
        failed == WriteFails(st, all)
        kept   == IF ~failed THEN all
                  ELSE IF step.mode \in {"atomic", "caught"} THEN {}
                  ELSE WrittenBeforeFailure(st, [i \in 1..Len(step.rows) |->
                                                     FreshRow(st, step.rows[i])])
    IN  [store |-> st \cup kept, error |-> failed,
         raised |-> failed /\ step.mode \in {"autocommit", "atomic"}]

\* main(): the steps in order inside one try; the except clause prints the
\* error and main returns.  No transaction spans the steps.
RECURSIVE RunMain(_, _, _)
RunMain(st, i, error) ==
    IF i > Len(MainSteps)
    THEN [store |-> st, outcome |-> "returned", error |-> error]
    ELSE LET step == RunStep(st, MainSteps[i])
         IN  IF step.raised
             THEN [store |-> step.store, outcome |-> "returned", error |-> TRUE]
             ELSE RunMain(step.store, i + 1, error \/ step.error)

main(st) == RunMain(st, 1, FALSE)

\* python populate_comprehensive_network.py
populate_comprehensive_network_main ==
    /\ request.view = "none"
    /\ LET run == main(store)
       IN  /\ request' = [view |-> "main"]
           /\ response' = [outcome |-> run.outcome, error |-> run.error,
                           value |-> "None"]
           /\ store' = run.store
    /\ UNCHANGED <<devices, cables, circuits, faults>>

\* The models clear_demo_data empties, in the order it deletes them.
ClearOrder ==
    << "VMInterface", "VirtualMachine", "Cluster", "ClusterGroup",
       "ClusterType", "CircuitTermination", "Circuit", "CircuitType",
       "Provider", "IPAddress", "Prefix", "VLAN", "VLANGroup", "Cable",
       "Interface", "Device", "Rack", "DeviceType", "DeviceRole",
       "Manufacturer", "Site", "Tenant", "TenantGroup" >>

ClearedModels == { ClearOrder[i] : i \in 1..Len(ClearOrder) }

\* The delete steps carried out one after the other with no transaction
\* around them: the models before the first failing one are emptied.
RECURSIVE DeleteInOrder(_, _)
DeleteInOrder(st, i) ==
    IF i > Len(ClearOrder) THEN [store |-> st, value |-> "True"]
    ELSE IF ClearOrder[i] \in faults THEN [store |-> st, value |-> "False"]
    ELSE DeleteInOrder(st \ RowsOf(st, ClearOrder[i]), i + 1)

ClearWithoutTransaction(st, confirm, answer) ==
    IF ~confirm /\ lower(answer) # "yes" THEN [store |-> st, value |-> "None"]
    ELSE DeleteInOrder(st, 1)

\* Mutant: the deletes run without the prompt, whatever `confirm` is.
ClearWithoutAsking(st, confirm, answer) ==
    IF DeleteInOrder(st, 1).value = "False"
    THEN [store |-> st, value |-> "False"]
    ELSE [store |-> DeleteInOrder(st, 1).store
                      \ (RowsOf(st, "CableTermination") \cup RowsOf(st, "Location")),
          value |-> "True"]

\* clear_demo_data(confirm): without confirm it asks and returns None unless
\* the answer, lower-cased, is yes.  The deletes run inside one
\* transaction.atomic() inside the try, so a failing delete rolls all of them
\* back before False is returned.  Deleting a cable deletes its terminations
\* with it, and deleting a site deletes its locations.
clear_demo_data(st, confirm, answer) ==
    IF ~confirm /\ lower(answer) # "yes" THEN [store |-> st, value |-> "None"]
    ELSE IF DeleteInOrder(st, 1).value = "False"
         THEN [store |-> st, value |-> "False"]
    ELSE [store |-> DeleteInOrder(st, 1).store
                      \ (RowsOf(st, "CableTermination") \cup RowsOf(st, "Location")),
          value |-> "True"]

\* str.startswith(prefix)
startswith(s, prefix) ==
    Len(s) >= Len(prefix) /\ SubSeq(s, 1, Len(prefix)) = prefix

\* The models clear_demo_only cleans by name after the demo sites.
DemoNamedModels == {"Tenant", "TenantGroup", "VLANGroup", "ClusterGroup"}

\* clear_demo_only(): inside one transaction.atomic(), the sites named
\* 'Demo Site...' are deleted with the rows the seeding attached to them by
\* site (racks, VLANs, devices and their interfaces), then the tenants,
\* tenant groups, VLAN groups and cluster groups named 'Demo...'.  When there
\* is no demo site the function returns (None) before the other deletes; a
\* failing delete rolls back and gives False.
clear_demo_only(st) ==
    LET demo_sites == { r \in RowsOf(st, "Site") : startswith(r[3], "Demo Site") }
        related    == { r \in st : /\ r[1] \in {"Rack", "VLAN", "Device", "Interface"}
                                   /\ \E site \in demo_sites : r[2] = site[2] }
        demo_named == { r \in st : /\ r[1] \in DemoNamedModels
                                   /\ startswith(r[3], "Demo") }
    IN  IF "Site" \in faults THEN [store |-> st, value |-> "False"]
        ELSE IF demo_sites = {} THEN [store |-> st, value |-> "None"]
        ELSE IF \/ \E r \in related : r[1] \in faults
                \/ faults \cap DemoNamedModels # {}
        THEN [store |-> st, value |-> "False"]
        ELSE [store |-> st \ (demo_sites \cup related \cup demo_named),
              value |-> "True"]

\* What the operator may type at the prompt of clear_demo_data.
PromptAnswers == {"yes", "YES", "Yes", "y", "no", ""}

\* python clear_netbox_data.py [--all] [--demo-only] [--force]
clear_netbox_data_main ==
    /\ request.view = "none"
    /\ \E all \in BOOLEAN, demo_only \in BOOLEAN, force \in BOOLEAN,
          answer \in PromptAnswers :
          LET run == IF all THEN clear_demo_data(store, force, answer)
                     ELSE IF demo_only THEN clear_demo_only(store)
                     ELSE [store |-> store, value |-> "None"]
          IN  /\ request' = [view |-> IF all THEN "clear_demo_data"
                                      ELSE IF demo_only THEN "clear_demo_only"
                                      ELSE "usage",
                             all |-> all, demo_only |-> demo_only,
                             force |-> force, answer |-> answer]
              /\ response' = [outcome |-> "returned",
                              error |-> run.value = "False",
                              value |-> run.value]
              /\ store' = run.store
    /\ UNCHANGED <<devices, cables, circuits, faults>>

\* The stores a script may be started on: empty, seeded by either populate
\* script, seeded by both, seeded with cables already present, and seeded by
\* create_demo_data with sites = 0.
SeedStores ==
    LET none == {}
        demo == DemoRows(1)
        net  == UNION { { MainSteps[i].rows[j] : j \in 1..Len(MainSteps[i].rows) } :
                           i \in 1..Len(MainSteps) }
        old  == { Row("Cable", 0, "cat6", k, 0) : k \in 8..9 }
    IN  { none, demo, net, demo \cup net, demo \cup {Row("Cable", 0, "cat6", 9, 0)},
          demo \cup old, DemoRows(0), DemoRows(0) \cup net }

\* The models whose writes or deletes may fail during one run.
FaultModels ==
    { "Tenant", "Site", "Device", "Interface", "VirtualMachine", "IPAddress",
      "Cable", "CableTermination", "Manufacturer", "DeviceType", "Location",
      "Rack", "VLAN", "Prefix", "WirelessLAN", "TunnelGroup", "Tunnel",
      "VMInterface", "TenantGroup" }

InitSeed ==
    /\ devices = <<>>
    /\ cables = <<>>
    /\ circuits = <<>>
    /\ faults \in {{}} \cup { {m} : m \in FaultModels }
    /\ request = NoRequest
    /\ response = NoResponse
    /\ store \in SeedStores

NextSeed ==
    \/ populate_demo_data_main
    \/ populate_demo_data_again
    \/ populate_comprehensive_network_main
    \/ clear_netbox_data_main

SpecSeed == InitSeed /\ [][NextSeed]_vars

\* The rows of demo site `n` that are devices.
DemoSiteDevices(st, n) == { r \in RowsOf(st, "Device") : r[2] = n }

\* C15: create_demo_data is all-or-nothing: whenever a write of the run
\* failed, in the atomic block or in the test-cable phase, the store after
\* the run holds exactly the rows it held before.
C15_DemoAllOrNothing ==
    [][ (request'.view = "create_demo_data" /\ response'.error)
          => store' = store ]_vars

\* C18: create_demo_data(sites=s, devices_per_site=d) on an empty store
\* leaves s demo sites, each with exactly d devices.
C18_DevicesPerSite ==
    [][ (/\ request'.view = "create_demo_data"
         /\ store = {}
         /\ ~response'.error)
          => /\ Cardinality(RowsOf(store', "Site")) = request'.sites
             /\ \A n \in 1..request'.sites :
                   Cardinality(DemoSiteDevices(store', n))
                      = request'.devices_per_site ]_vars

\* C16: main() of populate_comprehensive_network.py is all-or-nothing: when
\* a stage failed, no row written by the run remains in the store.
C16_MainAllOrNothing ==
    [][ (request'.view = "main" /\ response'.error)
          => store' \subseteq store ]_vars

FarDevice == EnhancedDeviceCap + 1

ResolveStoreSizes == {2, FarDevice}

\* The termination collections of one cable side: interfaces of devices 1
\* and 2, exposed directly or through the termination record, alone or behind
\* a termination of another shape or of the device outside the caps.
ResolveSides ==
    { <<>>, <<Direct(1)>>, <<Direct(2)>>, <<Wrapped(1)>>, <<Wrapped(2)>>,
      <<Wrapped(1), Direct(2)>>, <<NoDeviceTermination, Wrapped(2)>>,
      <<Direct(FarDevice)>>, <<Direct(FarDevice), Direct(1)>>,
      <<Wrapped(FarDevice), Wrapped(2)>> }

\* Every termination of the side belongs to a device of a store of n rows.
SideInStore(side, n) ==
    \A i \in 1..Len(side) : side[i].device \in 0..n

InitResolve ==
    /\ \E n \in ResolveStoreSizes :
          /\ devices = [i \in 1..n |-> ApiDevice(i)]
          /\ \E a \in ResolveSides, b \in ResolveSides :
                /\ SideInStore(a, n) /\ SideInStore(b, n)
                /\ cables = CableTable(<<a, b>>)
    /\ circuits = <<>>
    /\ faults = {}
    /\ request = NoRequest
    /\ response = NoResponse
    /\ store = {}

NextResolve ==
    \/ Dashboard_get_context_data
    \/ Enhanced_get_context_data

SpecResolve == InitResolve /\ [][NextResolve]_vars

\* Every termination of a non-empty side exposes its device only through
\* its `termination` field.
Indirect(terms) ==
    Len(terms) > 0 /\ \A i \in 1..Len(terms) : terms[i].shape = "wrapped"

\* The payload has an edge of cable c from device a to device b.
HasEdge(c, a, b) ==
    \E i \in EdgesOf(c) :
        Payload.connections[i].source = a /\ Payload.connections[i].target = b

\* C21: in the simple dashboard, a cable whose two sides hold terminations
\* that expose their device only through `termination`, pointing at two
\* distinct loaded devices, yields an edge between the two devices.
C21_DashboardIndirectEdge ==
    Full("dashboard") =>
        \A k \in 1..Len(cables) :
            LET c == cables[k]
                a == FirstDevice(c.a_terminations)
                b == FirstDevice(c.b_terminations)
            IN  (/\ Indirect(c.a_terminations) /\ Indirect(c.b_terminations)
                 /\ a # b
                 /\ InList(a, Ids(LoadedDashboard))
                 /\ InList(b, Ids(LoadedDashboard)))
                  => HasEdge(c, a, b)

\* C22: in either dashboard, the endpoints of a cable's edge are the devices
\* of the first termination of each side that exposes a device by any
\* probing path; a later termination of the side never supplies an endpoint.
C22_FirstTerminationDecides ==
    (Full("dashboard") \/ Full("enhanced")) =>
        \A i \in 1..Len(Payload.connections) : \A k \in 1..Len(cables) :
            cables[k].id = Payload.connections[i].id =>
                /\ Payload.connections[i].source
                      = FirstDevice(cables[k].a_terminations)
                /\ Payload.connections[i].target
                      = FirstDevice(cables[k].b_terminations)

\* ------------------------------------------------------------------------
\* Properties of the site groups and of the edges (checked under SpecFault)
\* ------------------------------------------------------------------------

\* The key under which the device loops file a device row.
SiteGroupName(d) == IF d.site.present THEN d.site.name ELSE "Unknown Site"

\* The rows the builder that served the request loaded.
LoadedRows ==
    IF request.view = "dashboard" THEN LoadedDashboard ELSE LoadedEnhanced

\* The loaded row with the given id.
RowOf(id) == LoadedRows[CHOOSE i \in 1..Len(LoadedRows) : LoadedRows[i].id = id]

\* C23: in both dashboards two devices are in the same site group exactly
\* when their site names are equal: every device is in the group of its site
\* name, no two groups share a name, and a group carries the id of the site
\* of the first loaded device with that name (None for 'Unknown Site').
C23_GroupedByName ==
    (Full("dashboard") \/ Full("enhanced")) =>
        /\ \A g \in 1..Len(Payload.sites) :
              /\ \A e \in 1..Len(Payload.sites[g].devices) :
                    SiteGroupName(RowOf(Payload.sites[g].devices[e].id))
                       = Payload.sites[g].name
              /\ \A h \in 1..Len(Payload.sites) :
                    Payload.sites[h].name = Payload.sites[g].name => h = g
              /\ \E i \in 1..Len(LoadedRows) :
                    /\ SiteGroupName(LoadedRows[i]) = Payload.sites[g].name
                    /\ \A j \in 1..(i - 1) :
                          SiteGroupName(LoadedRows[j]) # Payload.sites[g].name
                    /\ Payload.sites[g].id =
                          (IF LoadedRows[i].site.present
                           THEN LoadedRows[i].site.id ELSE NoneId)
        /\ \A i \in 1..Len(Payload.devices) :
              \E g \in 1..Len(Payload.sites) :
                  InList(Payload.devices[i], Payload.sites[g].devices)

\* A payload in which devices of two site records that share the name HQ are
\* in one group, carrying the id of the later record's site only as a device
\* attribute, next to the group of the devices without a site.
C23_Witness ==
    /\ (Full("dashboard") \/ Full("enhanced"))
    /\ \E g \in 1..Len(Payload.sites) :
          /\ Payload.sites[g].name = "HQ"
          /\ Payload.sites[g].id = 3
          /\ \E e \in 1..Len(Payload.sites[g].devices) :
                RowOf(Payload.sites[g].devices[e].id).site.id = 1
    /\ \E g \in 1..Len(Payload.sites) :
          Payload.sites[g].name = "Unknown Site" /\ Payload.sites[g].id = NoneId

C28_NoDanglingEndpoint ==
    (Served("dashboard") \/ Served("enhanced")) =>
        \A i \in 1..Len(Payload.connections) :
            /\ InList(Payload.connections[i].source, Ids(Payload.devices))
            /\ InList(Payload.connections[i].target, Ids(Payload.devices))

\* C29: in the payload of either dashboard, every site entry lists at least
\* one device, and total_sites is at most total_devices.
C29_NoEmptySite ==
    (Served("dashboard") \/ Served("enhanced")) =>
        /\ \A g \in 1..Len(Payload.sites) : Len(Payload.sites[g].devices) > 0
        /\ Payload.stats.total_sites <= Payload.stats.total_devices

\* A run of clear_netbox_data.py, whichever path it took.
ClearRun(r) == r.view \in {"clear_demo_data", "clear_demo_only", "usage"}

\* C25: clear_netbox_data.py deletes nothing unless deletion is both
\* requested (--all or --demo-only) and confirmed (--force, or yes at the
\* prompt).
C25_NothingWithoutConfirmation ==
    [][ (ClearRun(request') /\ store' # store)
          => /\ request'.all \/ request'.demo_only
             /\ request'.force \/ lower(request'.answer) = "yes" ]_vars

\* C25 as amended: a run that changes the store was given --all together
\* with --force or the answer yes in any letter case, or was given
\* --demo-only without --all, which asks nothing.
C25_DeletesOnlyOnRequest ==
    [][ (ClearRun(request') /\ store' # store)
          => \/ /\ request'.all
                /\ request'.force \/ lower(request'.answer) = "yes"
             \/ ~request'.all /\ request'.demo_only ]_vars

\* A run with --all and without --force that was answered otherwise than
\* yes, on a store that holds devices: they are still there.
C25_Witness ==
    /\ request.view = "clear_demo_data"
    /\ ~request.force
    /\ request.answer = "y"
    /\ response.value = "None"
    /\ faults = {}
    /\ RowsOf(store, "Device") # {}

\* C26: after clear_demo_only the store holds no site named 'Demo Site...'
\* and no tenant, tenant group, VLAN group or cluster group named 'Demo...',
\* and every site not named 'Demo Site...' is still there.
C26_NoDemoLeft ==
    [][ request'.view = "clear_demo_only"
          => /\ \A r \in RowsOf(store', "Site") : ~startswith(r[3], "Demo Site")
             /\ \A r \in store' :
                   r[1] \in DemoNamedModels => ~startswith(r[3], "Demo")
             /\ \A r \in RowsOf(store, "Site") :
                   ~startswith(r[3], "Demo Site") => r \in store' ]_vars

\* The cables the comments of the cable phase announce for store `st`: one
\* per switch i that has a router i among the selected routers, and one per
\* pair of neighbours among the selected switches.
AnnouncedCables(st) ==
    LET switches == Cardinality(FirstDevices(st, "sw", 5))
        routers  == Cardinality(FirstDevices(st, "rtr", 3))
    IN  (IF switches < routers THEN switches ELSE routers)
        + (IF switches > 0 THEN switches - 1 ELSE 0)

\* C27: create_demo_data on a store without cables creates one cable per
\* switch-router pair and one per pair of adjacent switches, each with an A
\* and a B termination, and prints the number of cables it added.
C27_TestCables ==
    [][ ( /\ request'.view = "create_demo_data"
          /\ RowsOf(store, "Cable") = {}
          /\ response'.outcome = "returned" /\ ~response'.error )
          => /\ Cardinality(RowsOf(store', "Cable")) = AnnouncedCables(store')
             /\ \A c \in RowsOf(store', "Cable") : \A e \in {"A", "B"} :
                   Row("CableTermination", 0, e, c[4], 0) \in store'
             /\ response'.cable_count = Cardinality(RowsOf(store', "Cable")) ]_vars

\* C30: a second run of create_demo_data with the same arguments leaves the
\* store as the first run left it.
C30_Idempotent ==
    [][ request'.view = "create_demo_data_again" => store' = store ]_vars

\* A second run that went through, on a store holding the demo sites and
\* the test cable of the first.
C30_Witness ==
    /\ request.view = "create_demo_data_again"
    /\ request.sites = MaxSites
    /\ response.outcome = "returned" /\ ~response.error
    /\ faults = {}
    /\ Cardinality(RowsOf(store, "Cable")) = 1
    /\ Cardinality(RowsOf(store, "Site")) >= MaxSites

====
